---- MODULE Spec2Model ----
(***************************************************************************)
(* State-machine model of hyperschedule/server.py: the course-key          *)
(* deduplicator and indexer, the single-step and replayed diff, the        *)
(* course_data store with its bounded update history, the refresh driver   *)
(* and the query / debug handlers.                                         *)
(*                                                                         *)
(* Python values are encoded as follows.  A list is a sequence, a dict is  *)
(* a function, a key list without meaningful order is a set.  An optional  *)
(* value is a set with at most one element: None is {} and a value v is    *)
(* {v}, so that an empty list or an empty dict ({<<>>}) stays distinct     *)
(* from None, as "is not None" and truthiness tests in the code require.   *)
(***************************************************************************)
EXTENDS Integers, Sequences, FiniteSets, TLC

None == {}
Some(v) == {v}
Val(o) == CHOOSE v \in o : TRUE

Min(a, b) == IF a <= b THEN a ELSE b

Range(s) == {s[i] : i \in 1..Len(s)}

\* A dict built at once: the same function, with every value computed when
\* the dict is built rather than when it is first read.
Dict(f) == f @@ <<>>

(***************************************************************************)
(* Record identity and attribute model (hyperschedule.libcourse).          *)
(***************************************************************************)

COURSE_INDEX_ATTRS ==
  <<"department", "courseNumber", "courseCodeSuffix", "school", "section">>

COURSE_ATTRS ==
  <<"department", "courseNumber", "courseCodeSuffix", "school", "section",
    "courseName", "courseStatus">>

course_to_index_key(course) ==
  [i \in 1..Len(COURSE_INDEX_ATTRS) |-> course[COURSE_INDEX_ATTRS[i]]]

course_from_index_key(key) ==
  [attr \in Range(COURSE_INDEX_ATTRS) |->
     key[CHOOSE i \in 1..Len(COURSE_INDEX_ATTRS) : COURSE_INDEX_ATTRS[i] = attr]]

Course(num, suffix, name, status) ==
  [department |-> "CS", courseNumber |-> num, courseCodeSuffix |-> suffix,
   school |-> "X", section |-> 1, courseName |-> name, courseStatus |-> status]

(***************************************************************************)
(* deduplicate_course_keys and index_courses.                              *)
(***************************************************************************)

ascii_uppercase ==
  <<"A", "B", "C", "D", "E", "F", "G", "H", "I", "J", "K", "L", "M",
    "N", "O", "P", "Q", "R", "S", "T", "U", "V", "W", "X", "Y", "Z">>

\* Positions of `courses`, in input order, whose key is `key`: one list of
\* the defaultdict built by the first loop.
RECURSIVE GroupMembers(_, _, _)
GroupMembers(courses, key, i) ==
  IF i > Len(courses) THEN <<>>
  ELSE IF course_to_index_key(courses[i]) = key
       THEN <<i>> \o GroupMembers(courses, key, i + 1)
       ELSE GroupMembers(courses, key, i + 1)

\* The keys of the defaultdict in insertion order (order of first occurrence).
RECURSIVE GroupKeys(_, _, _)
GroupKeys(courses, i, seen) ==
  IF i > Len(courses) THEN <<>>
  ELSE LET key == course_to_index_key(courses[i])
       IN IF key \in seen
          THEN GroupKeys(courses, i + 1, seen)
          ELSE <<key>> \o GroupKeys(courses, i + 1, seen \cup {key})

\* zip(courses, string.ascii_uppercase): the j-th member of the group gets
\* the j-th letter; zip stops at the shorter of the two.
AssignLetters(courses, members) ==
  [i \in 1..Len(courses) |->
     IF \E j \in 1..Min(Len(members), Len(ascii_uppercase)) : members[j] = i
     THEN LET j == CHOOSE j \in 1..Min(Len(members), Len(ascii_uppercase)) :
                     members[j] = i
          IN [courses[i] EXCEPT !["courseCodeSuffix"] = ascii_uppercase[j]]
     ELSE courses[i]]

\* The second loop, over the groups `keys` still to be processed.  `orig` is
\* the batch as passed in (the groups were built from it), `courses` the
\* batch as mutated so far.
RECURSIVE DedupLoop(_, _, _)
DedupLoop(orig, courses, keys) ==
  IF keys = <<>> THEN [raised |-> FALSE, courses |-> courses]
  ELSE LET members == GroupMembers(orig, Head(keys), 1)
       IN IF Len(members) > 1
          THEN IF \E j \in 1..Len(members) :
                     courses[members[j]].courseCodeSuffix # ""
               THEN [raised |-> TRUE, courses |-> courses]
               ELSE DedupLoop(orig, AssignLetters(courses, members), Tail(keys))
          ELSE DedupLoop(orig, courses, Tail(keys))

\* Result: whether ScrapeError was raised, and the batch as the in-place
\* modification left it.
deduplicate_course_keys(courses) ==
  DedupLoop(courses, courses, GroupKeys(courses, 1, {}))

AllKeys(courses) == {course_to_index_key(courses[i]) : i \in 1..Len(courses)}

KeysUnique(courses) ==
  \A i, j \in 1..Len(courses) :
     course_to_index_key(courses[i]) = course_to_index_key(courses[j]) => i = j

\* No check of "key in course_index": a later record replaces an earlier one
\* with the same key.
index_courses_NoCollisionCheck(courses) ==
  LET d == deduplicate_course_keys(courses)
  IN IF d.raised
     THEN [raised |-> TRUE, courses |-> d.courses, index |-> <<>>]
     ELSE [raised |-> FALSE, courses |-> d.courses,
           index |-> Dict([key \in AllKeys(d.courses) |->
                             d.courses[CHOOSE i \in 1..Len(d.courses) :
                                 /\ course_to_index_key(d.courses[i]) = key
                                 /\ \A j \in (i + 1)..Len(d.courses) :
                                      course_to_index_key(d.courses[j]) # key]])]

\* Result: raised, the batch as modified in place, and (when not raised) the
\* dict key -> course.
index_courses(courses) ==
  LET d == deduplicate_course_keys(courses)
  IN IF d.raised
     THEN [raised |-> TRUE, courses |-> d.courses, index |-> <<>>]
     ELSE IF ~KeysUnique(d.courses)
          THEN [raised |-> TRUE, courses |-> d.courses, index |-> <<>>]
          ELSE [raised |-> FALSE, courses |-> d.courses,
                index |-> Dict([key \in AllKeys(d.courses) |->
                                  d.courses[CHOOSE i \in 1..Len(d.courses) :
                                      course_to_index_key(d.courses[i]) = key]])]

(***************************************************************************)
(* compute_update: the diff between two consecutive indexes.               *)
(***************************************************************************)

\* The comparison runs over the identity attributes only.
ChangedAttrs_IdentityOnly(old_course, new_course) ==
  {attr \in Range(COURSE_INDEX_ATTRS) : old_course[attr] # new_course[attr]}

\* Lines 100-103: the tracked attributes in which the two records differ.
ChangedAttrs(old_course, new_course) ==
  {attr \in Range(COURSE_ATTRS) : old_course[attr] # new_course[attr]}

compute_update(old_courses_index, new_courses_index) ==
  LET old_courses_keys == DOMAIN old_courses_index
      new_courses_keys == DOMAIN new_courses_index
      maybe_modified_keys == new_courses_keys \cap old_courses_keys
      modified_keys ==
        {key \in maybe_modified_keys :
           ChangedAttrs(old_courses_index[key], new_courses_index[key]) # {}}
  IN [added |-> new_courses_keys \ old_courses_keys,
      removed |-> old_courses_keys \ new_courses_keys,
      modified |-> Dict([key \in modified_keys |->
                           ChangedAttrs(old_courses_index[key],
                                        new_courses_index[key])])]

(***************************************************************************)
(* The store: the module-level dicts and the update history.               *)
(***************************************************************************)

VARIABLES
  course_data,          \* the dict the global name course_data refers to
  INITIAL_COURSE_DATA,  \* the module-level dict INITIAL_COURSE_DATA
  aliased,              \* course_data is INITIAL_COURSE_DATA (same object)
  config,               \* [debug, use_cache, use_snitch], fixed at start-up
  clock,                \* int(datetime.datetime.now().timestamp())
  last_dms_update,      \* None or the clock of the last snitch notification
  commits,              \* history: <<timestamp, index>> of every
                        \* update_course_data since the store was last empty
  committed,            \* history: update_course_data has run since start-up
                        \* and no /debug/reset was served after it
  last,                 \* history: the last operation and what it returned
  batch,                \* deduplicator harness: the list passed in
  dedup,                \* deduplicator harness: None or the call's outcome
  thread_lock,          \* None or the thread that holds thread_lock
  pc,                   \* per thread: the step it is about to take
  loc,                  \* per thread: its local variables
  stores                \* history: the values course_data had whenever no
                        \* thread was inside a critical section

threads == <<thread_lock, pc, loc, stores>>

vars == <<course_data, INITIAL_COURSE_DATA, aliased, config, clock,
          last_dms_update, commits, committed, last, batch, dedup,
          thread_lock, pc, loc, stores>>

\* The refresh driver's thread (one Timer thread after the other) and the
\* threads of ThreadingHTTPServer, one per request being served.
Handlers == {"h1", "h2"}
Threads == {"driver"} \cup Handlers

\* The literal at lines 31-37.  It has no "malformed" key; the model keeps
\* the absent key as None (it is only read once "current" is truthy, and
\* update_course_data sets both together).
InitialCourseData ==
  [current |-> None, index |-> None, initial_timestamp |-> None,
   updates |-> <<>>, timestamp |-> None, malformed |-> None]

MAX_UPDATES_SAVED == 100

\* Python truthiness of course_data["current"]: None and [] are falsy.
Truthy(current) == current # None /\ Val(current) # <<>>

(***************************************************************************)
(* compute_diff: replay of the retained updates newer than `since`.        *)
(***************************************************************************)

EmptyAcc == [added |-> {}, removed |-> {}, modified |-> <<>>, fault |-> FALSE]

Fault(acc) == [acc EXCEPT !.fault = TRUE]

\* The loop body at lines 117-137 runs three inner loops one after the other.
\* Inside one loop every key is distinct and touches only its own entries, so
\* the iteration order of a loop does not matter.  A failing assert sets
\* fault (AssertionError leaves compute_diff).

\* The attribute set of a key is replaced, not united with the earlier one.
ApplyModified_Overwrite(acc, update) ==
  LET keys == DOMAIN update.modified
  IN IF acc.fault THEN acc
     ELSE IF \E key \in keys : key \in acc.removed THEN Fault(acc)
     ELSE [acc EXCEPT !.modified =
             Dict([key \in DOMAIN acc.modified \cup keys |->
                IF key \in keys THEN update.modified[key]
                ELSE acc.modified[key]])]

\* Lines 118-122: the keys of update["modified"].
ApplyModified(acc, update) ==
  LET keys == DOMAIN update.modified
  IN IF acc.fault THEN acc
     ELSE IF \E key \in keys : key \in acc.removed THEN Fault(acc)
     ELSE [acc EXCEPT !.modified =
             Dict([key \in DOMAIN acc.modified \cup keys |->
                (IF key \in DOMAIN acc.modified THEN acc.modified[key] ELSE {})
                \cup (IF key \in keys THEN update.modified[key] ELSE {})])]

\* A key that comes back is put in `added` like any other.
ApplyAdded_NoRoundTrip(acc, update) ==
  IF acc.fault THEN acc
  ELSE IF \E key \in update.added :
             key \in DOMAIN acc.modified \/ key \in acc.added
       THEN Fault(acc)
       ELSE [acc EXCEPT !.added = acc.added \cup update.added,
                        !.removed = acc.removed \ update.added]

\* Lines 123-129: the keys of update["added"].
ApplyAdded(acc, update) ==
  LET readded == update.added \cap acc.removed
  IN IF acc.fault THEN acc
     ELSE IF \E key \in update.added :
                key \in DOMAIN acc.modified \/ key \in acc.added
          THEN Fault(acc)
          ELSE [acc EXCEPT
                  !.added = acc.added \cup (update.added \ readded),
                  !.removed = acc.removed \ readded,
                  !.modified =
                    Dict([key \in DOMAIN acc.modified \cup readded |->
                            IF key \in readded THEN Range(COURSE_ATTRS)
                            ELSE acc.modified[key]])]

\* A removal does not retract an earlier add of the same key.
ApplyRemoved_NoRetract(acc, update) ==
  IF acc.fault THEN acc
  ELSE IF \E key \in update.removed : key \in acc.removed THEN Fault(acc)
       ELSE [acc EXCEPT
               !.modified =
                 Dict([key \in DOMAIN acc.modified \ update.removed |->
                         acc.modified[key]]),
               !.added = acc.added \ update.removed,
               !.removed = acc.removed \cup update.removed]

\* Lines 130-137: the keys of update["removed"].
ApplyRemoved(acc, update) ==
  IF acc.fault THEN acc
  ELSE IF \E key \in update.removed : key \in acc.removed THEN Fault(acc)
       ELSE [acc EXCEPT
               !.modified =
                 Dict([key \in DOMAIN acc.modified \ update.removed |->
                         acc.modified[key]]),
               !.added = acc.added \ update.removed,
               !.removed = acc.removed \cup (update.removed \ acc.added)]

ApplyUpdate(acc, update) ==
  ApplyRemoved(ApplyAdded(ApplyModified(acc, update), update), update)

\* The loop at lines 116-137 over the entries lo..hi of `updates`, in order,
\* starting from the accumulators `acc`.  The range is folded half by half
\* (first lo..mid, then mid+1..hi from its result), which is the same
\* left-to-right fold with a shallow evaluation.  A failed assert ends it.
RECURSIVE FoldUpdates(_, _, _, _, _)
FoldUpdates(updates, since, lo, hi, acc) ==
  IF lo > hi THEN acc
  ELSE IF lo = hi
       THEN IF updates[lo][1] > since
            THEN ApplyUpdate(acc, updates[lo][2])
            ELSE acc
       ELSE LET mid == (lo + hi) \div 2
                left == FoldUpdates(updates, since, lo, mid, acc)
            IN IF left.fault THEN left
               ELSE FoldUpdates(updates, since, mid + 1, hi, left)

\* The accumulators added / removed / modified after the loop.
DiffAcc(since) ==
  FoldUpdates(course_data.updates, since, 1, Len(course_data.updates), EmptyAcc)

\* Lines 138-157: the accumulators resolved against the current index.  A
\* failed assert or a key missing from the index (KeyError) is a fault.
compute_diff(since) ==
  LET acc == DiffAcc(since)
      index == Val(course_data.index)
  IN IF acc.fault \/ \E key \in acc.added \cup DOMAIN acc.modified :
                        key \notin DOMAIN index
     THEN [fault |-> TRUE, added |-> {}, removed |-> {}, modified |-> {}]
     ELSE [fault |-> FALSE,
           added |-> {index[key] : key \in acc.added},
           removed |-> {course_from_index_key(key) : key \in acc.removed},
           modified |->
             {[attr \in Range(COURSE_INDEX_ATTRS) \cup acc.modified[key] |->
                 index[key][attr]] : key \in DOMAIN acc.modified}]

(***************************************************************************)
(* update_course_data.                                                     *)
(***************************************************************************)

\* Off by one: the slice starts one entry too early.
TruncateUpdates_KeepsOneMore(updates) ==
  IF Len(updates) > MAX_UPDATES_SAVED
  THEN SubSeq(updates, Len(updates) - MAX_UPDATES_SAVED, Len(updates))
  ELSE updates

\* Lines 169-170: keep the last MAX_UPDATES_SAVED entries.
TruncateUpdates(updates) ==
  IF Len(updates) > MAX_UPDATES_SAVED
  THEN SubSeq(updates, Len(updates) - MAX_UPDATES_SAVED + 1, Len(updates))
  ELSE updates

\* The dict `cd` after update_course_data has run on it (lines 164-176).
update_course_data(cd, timestamp, courses, index, malformed_courses) ==
  LET last_index == cd.index
  IN [current |-> Some(courses),
      index |-> Some(index),
      initial_timestamp |->
        IF last_index # None THEN cd.initial_timestamp ELSE Some(timestamp),
      updates |->
        IF last_index # None
        THEN TruncateUpdates(
               Append(cd.updates,
                      <<timestamp, compute_update(Val(last_index), index)>>))
        ELSE cd.updates,
      timestamp |-> Some(timestamp),
      malformed |-> Some(malformed_courses)]

(***************************************************************************)
(* Query handlers (HTTPHandler.do_GET) as functions of the store.          *)
(***************************************************************************)

Unavailable == [status |-> "SERVICE_UNAVAILABLE"]

AllCoursesResponse ==
  IF Truthy(course_data.current)
  THEN [status |-> "OK",
        courses |-> Val(course_data.current),
        timestamp |-> course_data.timestamp,
        malformedCourseCount |-> Len(Val(course_data.malformed))]
  ELSE Unavailable

\* `since` is the parsed integer.
CoursesSinceResponse(since) ==
  IF Truthy(course_data.current) /\ since >= Val(course_data.initial_timestamp)
  THEN LET diff == compute_diff(since)
       IN IF diff.fault
          THEN [status |-> "FAULT"]
          ELSE [status |-> "OK",
                incremental |-> TRUE,
                diff |-> [added |-> diff.added, removed |-> diff.removed,
                          modified |-> diff.modified],
                timestamp |-> course_data.timestamp,
                malformedCourseCount |-> Len(Val(course_data.malformed))]
  ELSE IF Truthy(course_data.current)
       THEN [status |-> "OK",
             incremental |-> FALSE,
             courses |-> Val(course_data.current),
             timestamp |-> course_data.timestamp,
             malformedCourseCount |-> Len(Val(course_data.malformed))]
       ELSE Unavailable

MalformedCoursesResponse ==
  IF Truthy(course_data.current)
  THEN [status |-> "OK", malformed |-> Val(course_data.malformed)]
  ELSE Unavailable

(***************************************************************************)
(* Inputs and bounds.                                                      *)
(***************************************************************************)

\* config["delay"]: seconds between two attempts of the refresh driver.
delay == 5

\* datetime.timedelta(minutes=5), in seconds.
snitch_interval == 300

\* The clock (seconds) stops the development model at MaxClock and the
\* production model at MaxClockProd.
MaxClock == 15
MaxClockProd == 515

a0 == Course(101, "", "Intro", "open")
a1 == Course(101, "", "Intro 2", "open")
a2 == Course(101, "", "Intro 2", "closed")
b0 == Course(102, "A", "Data", "open")
c0 == Course(103, "", "Logic", "open")
aA == Course(101, "A", "Intro", "open")

\* What the scraper subprocess may print: [courses, malformed_courses].
FetchBatches ==
  {<<>>, <<a0>>, <<a1>>, <<a2>>, <<a0, b0>>, <<a0, a0>>, <<b0, b0>>,
   <<aA, a0, a0>>}

FetchOutputs ==
  {[courses |-> courses,
    malformed |-> IF courses = <<a2>> THEN <<"junk">> ELSE <<>>] :
     courses \in FetchBatches}

\* The production model's portal: the n-th committed scrape of a run.
ProdFeed == << <<a0>>, <<a1, c0>>, <<c0>>, <<a2>> >>

\* The scraper fails at most once per production run, and only before
\* ProdFailBefore scrapes were committed.
ProdFailBefore == 2

ProdScrapes ==
  {Some([courses |-> ProdFeed[(Len(commits) % Len(ProdFeed)) + 1],
         malformed |-> <<>>])}
  \cup (IF clock = delay * Len(commits) /\ Len(commits) < ProdFailBefore
        THEN {None} ELSE {})

\* None: the subprocess timed out, exited non-zero or printed no JSON.
Scrapes == {None} \cup {Some(o) : o \in FetchOutputs}

\* Values of `since` the properties range over.
SinceInputs == -1..(MaxClock + 1)

\* Values of `since` the clients send.
ClientSinceInputs == {-1, clock - delay, clock - 1, clock}

ProdSinceInputs == {delay - 1, delay, 2 * delay, clock - delay, clock}

(***************************************************************************)
(* The refresh driver: run_fetch_task, once the timer has fired.           *)
(***************************************************************************)

\* Lines 229-234: no notification yet, or the last one more than five
\* minutes ago.
long_enough(now) ==
  last_dms_update = None \/ now - Val(last_dms_update) > snitch_interval

\* `scraped` is None when the subprocess timed out, exited non-zero or
\* printed no JSON, else the parsed output; `cache_ok` tells whether the
\* cache files can be written, `snitch_ok` whether requests.get returns.
\* The notification runs in the else clause of the try statement (lines
\* 227-243), where no handler covers it: an exception of requests.get leaves
\* run_single_fetch_task and run_fetch_task (nothing is returned; the history
\* records the attempt as failed at "snitch") before line 251 has started
\* the next timer, and the driver's thread ends.
run_single_fetch_task(timestamp, scraped, cache_ok, snitch_ok) ==
  IF scraped = None
  THEN /\ last' = [op |-> "run_fetch_task", result |-> FALSE,
                   failed |-> "scrape"]
       /\ UNCHANGED <<course_data, INITIAL_COURSE_DATA, commits, committed,
                      last_dms_update, pc>>
  ELSE LET ix == index_courses(Val(scraped).courses)
           updated == update_course_data(course_data, timestamp, ix.courses,
                                         ix.index, Val(scraped).malformed)
       IN IF ix.raised
          THEN /\ last' = [op |-> "run_fetch_task", result |-> FALSE,
                           failed |-> "index"]
               /\ UNCHANGED <<course_data, INITIAL_COURSE_DATA, commits,
                              committed, last_dms_update, pc>>
          ELSE /\ course_data' = updated
               /\ INITIAL_COURSE_DATA' =
                    IF aliased THEN updated ELSE INITIAL_COURSE_DATA
               /\ commits' = Append(commits, <<timestamp, ix.index>>)
               /\ committed' = TRUE
               /\ IF config.use_cache /\ ~cache_ok
                  THEN /\ last' = [op |-> "run_fetch_task", result |-> FALSE,
                                   failed |-> "cache"]
                       /\ UNCHANGED <<last_dms_update, pc>>
                  ELSE IF config.use_snitch /\ long_enough(timestamp)
                       THEN IF snitch_ok
                            THEN /\ last' = [op |-> "run_fetch_task",
                                             result |-> TRUE,
                                             failed |-> "nothing"]
                                 /\ last_dms_update' = Some(timestamp)
                                 /\ UNCHANGED pc
                            ELSE /\ last' = [op |-> "run_fetch_task",
                                             result |-> FALSE,
                                             failed |-> "snitch"]
                                 /\ pc' = [pc EXCEPT !["driver"] = "dead"]
                                 /\ UNCHANGED last_dms_update
                       ELSE /\ last' = [op |-> "run_fetch_task",
                                        result |-> TRUE, failed |-> "nothing"]
                            /\ UNCHANGED <<last_dms_update, pc>>

\* One firing of the timer: the attempt starts `delay` seconds after the
\* previous one, and the next timer is started whatever the attempt returned.
run_fetch_task(scrapes, maxClock) ==
  /\ pc["driver"] = "timer"
  /\ clock + delay <= maxClock
  /\ clock' = clock + delay
  /\ \E scraped \in scrapes, cache_ok \in BOOLEAN, snitch_ok \in BOOLEAN :
        run_single_fetch_task(clock + delay, scraped, cache_ok, snitch_ok)
  /\ UNCHANGED <<aliased, config, batch, dedup, thread_lock, loc, stores>>

(***************************************************************************)
(* Request handlers.                                                       *)
(***************************************************************************)

StoreUnchanged ==
  UNCHANGED <<course_data, INITIAL_COURSE_DATA, aliased, config, clock,
              last_dms_update, commits, committed, batch, dedup, threads>>

GetAllCourses ==
  /\ last' = [op |-> "all-courses", response |-> AllCoursesResponse]
  /\ StoreUnchanged

\* `text` is None when int() rejects the matched digits and dashes.
GetCoursesSince(text) ==
  /\ last' = [op |-> "courses-since", since |-> text,
              response |-> IF text = None
                           THEN [status |-> "BAD_REQUEST"]
                           ELSE CoursesSinceResponse(Val(text))]
  /\ StoreUnchanged

GetMalformedCourses ==
  /\ last' = [op |-> "malformed-courses", response |-> MalformedCoursesResponse]
  /\ StoreUnchanged

GetExperimentalCourseData ==
  /\ last' = [op |-> "course-data", response |-> course_data]
  /\ StoreUnchanged

\* do_PUT with server.debug false.
PutNotImplemented ==
  /\ ~config.debug
  /\ last' = [op |-> "put", response |-> [status |-> "NOT_IMPLEMENTED"]]
  /\ StoreUnchanged

\* /debug/set-courses: update_course_data is called with three of its four
\* arguments, so the handler ends in TypeError (or in ScrapeError before
\* that) and the store is never touched.
PutSetCourses ==
  /\ config.debug
  /\ \E courses \in FetchBatches :
        last' = [op |-> "set-courses",
                 error |-> IF index_courses(courses).raised
                           THEN "ScrapeError" ELSE "TypeError"]
  /\ StoreUnchanged

\* /debug/scrape: the thread calls run_single_fetch_task with two arguments
\* and dies with TypeError; the handler answers NO_CONTENT.
PutScrape ==
  /\ config.debug
  /\ last' = [op |-> "scrape", response |-> [status |-> "NO_CONTENT"]]
  /\ StoreUnchanged

\* /debug/reset, line 408: the global name is bound to the module-level dict
\* itself, not to a copy of it.
PutReset ==
  /\ config.debug
  /\ course_data' = INITIAL_COURSE_DATA
  /\ aliased' = TRUE
  /\ commits' = IF INITIAL_COURSE_DATA.index = None THEN <<>> ELSE commits
  /\ committed' = FALSE
  /\ \E cache_ok \in BOOLEAN :
        last' = [op |-> "reset",
                 response |-> [status |-> IF config.use_cache /\ ~cache_ok
                                          THEN "ERROR" ELSE "NO_CONTENT"]]
  /\ UNCHANGED <<INITIAL_COURSE_DATA, config, clock, last_dms_update,
                 batch, dedup, threads>>

(***************************************************************************)
(* Specifications.                                                         *)
(***************************************************************************)

\* A thread that is not inside a request or an attempt has no locals.
\* `request` is what the thread is serving, `read` the fields of course_data
\* it has read so far, `rest` the steps that follow the one pc names, and
\* `refresh` the driver's arguments to update_course_data.
NoRequest == [kind |-> "none", since |-> 0]

NoLocals ==
  [request |-> NoRequest, read |-> <<>>, rest |-> <<>>, refresh |-> None]

StoreInit(cfg) ==
  /\ course_data = InitialCourseData
  /\ INITIAL_COURSE_DATA = InitialCourseData
  /\ aliased = FALSE
  /\ config = cfg
  /\ clock = 0
  /\ last_dms_update = None
  /\ commits = <<>>
  /\ committed = FALSE
  /\ last = [op |-> "start"]
  /\ thread_lock = None
  /\ pc = [t \in Threads |-> IF t = "driver" THEN "timer" ELSE "idle"]
  /\ loc = [t \in Threads |-> NoLocals]
  /\ stores = {InitialCourseData}

\* The deduplicator harness is idle in the store models.
NoHarness == batch = <<>> /\ dedup = None

\* Development mode (the default): debug routes and the cache are on.
Init ==
  /\ StoreInit([debug |-> TRUE, use_cache |-> TRUE, use_snitch |-> FALSE])
  /\ NoHarness

Next ==
  \/ run_fetch_task(Scrapes, MaxClock)
  \/ GetAllCourses
  \/ \E text \in {None} \cup {Some(since) : since \in ClientSinceInputs} :
        GetCoursesSince(text)
  \/ GetMalformedCourses
  \/ GetExperimentalCourseData
  \/ PutSetCourses
  \/ PutScrape
  \/ PutReset

Spec == Init /\ [][Next]_vars

\* Production mode (--production): no debug routes, no cache.
InitProd ==
  /\ StoreInit([debug |-> FALSE, use_cache |-> FALSE, use_snitch |-> FALSE])
  /\ NoHarness

NextProd ==
  \/ run_fetch_task(ProdScrapes, MaxClockProd)
  \/ GetAllCourses
  \/ \E since \in ProdSinceInputs : GetCoursesSince(Some(since))
  \/ GetMalformedCourses
  \/ PutNotImplemented

SpecProd == InitProd /\ [][NextProd]_vars

\* Production mode with the dead man's switch (--production --snitch).  The
\* timer started at line 251 fires after `delay` seconds, so an attempt that
\* is due is eventually made.
InitSnitch ==
  /\ StoreInit([debug |-> FALSE, use_cache |-> FALSE, use_snitch |-> TRUE])
  /\ NoHarness

NextSnitch ==
  \/ run_fetch_task(Scrapes, MaxClock)
  \/ GetAllCourses
  \/ \E since \in ClientSinceInputs : GetCoursesSince(Some(since))
  \/ GetMalformedCourses
  \/ PutNotImplemented

SpecSnitch ==
  /\ InitSnitch
  /\ [][NextSnitch]_vars
  /\ WF_vars(run_fetch_task(Scrapes, MaxClock))

(***************************************************************************)
(* The threads, statement by statement.  Each thread runs the steps of its *)
(* handler in program order; `with thread_lock:` is the step "lock" at its *)
(* start and the step "unlock" at its end.                                 *)
(***************************************************************************)

MaxClockThreads == 10

ThreadBatches == {<<a0>>, <<a1>>}

ThreadScrapes ==
  {None} \cup {Some([courses |-> courses, malformed |-> <<>>]) :
                 courses \in ThreadBatches}

\* The requests that reach course_data.  /debug/set-courses and
\* /debug/scrape end in TypeError before they touch it (PutSetCourses,
\* PutScrape); the 400 answer of courses-since is sent like its 503.
ThreadRequests ==
  {[kind |-> kind, since |-> 0] :
     kind \in {"all-courses", "malformed-courses", "course-data", "reset"}}
  \cup {[kind |-> "courses-since", since |-> since] : since \in {0, delay}}

\* The steps that read course_data, and the keys each of them reads.
ReadSteps ==
  {"read_current", "read_timestamp", "read_malformed", "read_since",
   "compute_diff", "read_course_data"}

Fields(step) ==
  CASE step = "read_current" -> {"current"}
    [] step = "read_timestamp" -> {"timestamp"}
    [] step = "read_malformed" -> {"malformed"}
    [] step = "read_since" ->
         IF Truthy(course_data.current)
         THEN {"current", "initial_timestamp"} ELSE {"current"}
    [] step = "compute_diff" -> {"updates", "index"}
    [] step = "read_course_data" -> DOMAIN course_data

\* The steps of update_course_data that write course_data (lines 164-176).
WriteSteps == {"updates", "current", "index", "timestamp", "malformed"}

\* The steps a handler takes once it has matched the path.
Plan(request) ==
  CASE request.kind = "all-courses" -> <<"lock", "read_current">>
    [] request.kind = "courses-since" ->
         <<"lock", "read_timestamp", "read_since">>
    [] request.kind = "malformed-courses" -> <<"lock", "read_current">>
    [] request.kind = "course-data" ->
         <<"lock", "read_course_data", "unlock", "send">>
    [] request.kind = "reset" ->
         <<"lock", "rebind">>
           \o (IF config.use_cache THEN <<"write_cache">> ELSE <<>>)
           \o <<"unlock", "send">>

\* The steps that follow a read on which the handler branches; `read` holds
\* what the step has just read.
Branch(request, step, read, rest) ==
  CASE request.kind = "all-courses" /\ step = "read_current" ->
         IF Truthy(read["current"])
         THEN <<"read_timestamp", "read_malformed", "send", "unlock">>
         ELSE <<"send", "unlock">>
    [] request.kind = "malformed-courses" /\ step = "read_current" ->
         IF Truthy(read["current"])
         THEN <<"read_malformed", "send", "unlock">>
         ELSE <<"send", "unlock">>
    [] request.kind = "courses-since" /\ step = "read_since" ->
         IF Truthy(read["current"])
         THEN IF request.since >= Val(read["initial_timestamp"])
              THEN <<"compute_diff", "read_malformed", "unlock", "send">>
              ELSE <<"read_current", "read_malformed", "unlock", "send">>
         ELSE <<"send", "unlock">>
    [] OTHER -> rest

\* Thread t goes on with the steps `steps`; at their end the handler thread
\* is free again and the driver waits for its timer.
Goto(t, steps, locals) ==
  IF steps = <<>>
  THEN /\ pc' = [pc EXCEPT ![t] = IF t = "driver" THEN "timer" ELSE "idle"]
       /\ loc' = [loc EXCEPT ![t] = NoLocals]
  ELSE /\ pc' = [pc EXCEPT ![t] = Head(steps)]
       /\ loc' = [loc EXCEPT ![t] = [locals EXCEPT !.rest = Tail(steps)]]

\* The lock is taken whether or not another thread holds it.
Acquire_NoWait(t) ==
  /\ pc[t] = "lock"
  /\ thread_lock' = Some(t)
  /\ Goto(t, loc[t].rest, loc[t])
  /\ UNCHANGED <<course_data, INITIAL_COURSE_DATA, aliased, config, clock,
                 last_dms_update, commits, committed, last, batch, dedup,
                 stores>>

\* `with thread_lock:` entered: the thread waits until the lock is free.
Acquire(t) ==
  /\ pc[t] = "lock"
  /\ thread_lock = None
  /\ thread_lock' = Some(t)
  /\ Goto(t, loc[t].rest, loc[t])
  /\ UNCHANGED <<course_data, INITIAL_COURSE_DATA, aliased, config, clock,
                 last_dms_update, commits, committed, last, batch, dedup,
                 stores>>

\* `with thread_lock:` left.
Release(t) ==
  /\ pc[t] = "unlock"
  /\ thread_lock' = None
  /\ Goto(t, loc[t].rest, loc[t])
  /\ UNCHANGED <<course_data, INITIAL_COURSE_DATA, aliased, config, clock,
                 last_dms_update, commits, committed, last, batch, dedup,
                 stores>>

\* A request arrives and ThreadingHTTPServer gives it a thread.
Receive(t, request) ==
  /\ pc[t] = "idle"
  /\ request.kind = "reset" => config.debug
  /\ Goto(t, Plan(request), [NoLocals EXCEPT !.request = request])
  /\ UNCHANGED <<course_data, INITIAL_COURSE_DATA, aliased, config, clock,
                 last_dms_update, commits, committed, last, batch, dedup,
                 thread_lock, stores>>

\* One statement of do_GET that reads keys of course_data.
Read(t) ==
  /\ pc[t] \in ReadSteps
  /\ LET read == [f \in DOMAIN loc[t].read \cup Fields(pc[t]) |->
                    IF f \in Fields(pc[t]) THEN course_data[f]
                    ELSE loc[t].read[f]]
     IN Goto(t, Branch(loc[t].request, pc[t], read, loc[t].rest),
             [loc[t] EXCEPT !.read = read])
  /\ UNCHANGED <<course_data, INITIAL_COURSE_DATA, aliased, config, clock,
                 last_dms_update, commits, committed, last, batch, dedup,
                 thread_lock, stores>>

\* send_response / send_error and wfile.write: bytes go to the client.
Send(t) ==
  /\ pc[t] = "send"
  /\ Goto(t, loc[t].rest, loc[t])
  /\ UNCHANGED <<course_data, INITIAL_COURSE_DATA, aliased, config, clock,
                 last_dms_update, commits, committed, last, batch, dedup,
                 thread_lock, stores>>

\* /debug/reset, line 408.
Rebind(t) ==
  /\ pc[t] = "rebind"
  /\ course_data' = INITIAL_COURSE_DATA
  /\ aliased' = TRUE
  /\ commits' = IF INITIAL_COURSE_DATA.index = None THEN <<>> ELSE commits
  /\ committed' = FALSE
  /\ stores' = stores \cup {INITIAL_COURSE_DATA}
  /\ Goto(t, loc[t].rest, loc[t])
  /\ UNCHANGED <<INITIAL_COURSE_DATA, config, clock, last_dms_update, last,
                 batch, dedup, thread_lock>>

\* write_course_data_to_cache_file (lines 200-206): json.dump reads
\* course_data and writes the files.  In the driver an OSError is caught at
\* line 223; in the reset handler it ends the request (the with statement
\* releases the lock on the way out).
WriteCache(t) ==
  /\ pc[t] = "write_cache"
  /\ \E cache_ok \in BOOLEAN :
        Goto(t, IF cache_ok \/ t = "driver" THEN loc[t].rest ELSE <<"unlock">>,
             loc[t])
  /\ UNCHANGED <<course_data, INITIAL_COURSE_DATA, aliased, config, clock,
                 last_dms_update, commits, committed, last, batch, dedup,
                 thread_lock, stores>>

\* The timer fires: run_fetch_task up to the call of update_course_data
\* (lines 179-198: the scraper subprocess and index_courses).  A failure is
\* logged and the next timer started.
DriverFetch ==
  /\ pc["driver"] = "timer"
  /\ clock + delay <= MaxClockThreads
  /\ clock' = clock + delay
  /\ \E scraped \in ThreadScrapes :
        IF scraped = None \/ index_courses(Val(scraped).courses).raised
        THEN UNCHANGED <<pc, loc>>
        ELSE LET ix == index_courses(Val(scraped).courses)
             IN Goto("driver",
                     <<"lock", "updates", "current", "index", "timestamp",
                       "malformed", "unlock">>
                       \o (IF config.use_cache THEN <<"write_cache">> ELSE <<>>),
                     [NoLocals EXCEPT
                        !.request = [kind |-> "refresh", since |-> clock + delay],
                        !.refresh = Some([timestamp |-> clock + delay,
                                          courses |-> ix.courses,
                                          index |-> ix.index,
                                          malformed |-> Val(scraped).malformed])])
  /\ UNCHANGED <<course_data, INITIAL_COURSE_DATA, aliased, config,
                 last_dms_update, commits, committed, last, batch, dedup,
                 thread_lock, stores>>

\* One group of assignments of update_course_data: lines 164-172 (the
\* history or initial_timestamp), 173, 174, 175 and 176.
DriverWrite ==
  /\ pc["driver"] \in WriteSteps
  /\ LET args == Val(loc["driver"].refresh)
         updated == update_course_data(course_data, args.timestamp,
                                       args.courses, args.index, args.malformed)
         written ==
           IF pc["driver"] = "updates"
           THEN [course_data EXCEPT
                   !.updates = updated.updates,
                   !.initial_timestamp = updated.initial_timestamp]
           ELSE [course_data EXCEPT ![pc["driver"]] = updated[pc["driver"]]]
     IN /\ course_data' = written
        /\ INITIAL_COURSE_DATA' =
             IF aliased THEN written ELSE INITIAL_COURSE_DATA
        /\ IF pc["driver"] = "malformed"
           THEN /\ commits' = Append(commits, <<args.timestamp, args.index>>)
                /\ committed' = TRUE
                /\ stores' = stores \cup {written}
           ELSE UNCHANGED <<commits, committed, stores>>
  /\ Goto("driver", loc["driver"].rest, loc["driver"])
  /\ UNCHANGED <<aliased, config, clock, last_dms_update, last, batch, dedup,
                 thread_lock>>

\* Development mode, thread by thread.
InitThreads ==
  /\ StoreInit([debug |-> TRUE, use_cache |-> TRUE, use_snitch |-> FALSE])
  /\ NoHarness

NextThreads ==
  \/ DriverFetch
  \/ DriverWrite
  \/ \E t \in Threads : Acquire(t)
  \/ \E t \in Threads : Release(t)
  \/ \E t \in Threads : WriteCache(t)
  \/ \E t \in Handlers, request \in ThreadRequests : Receive(t, request)
  \/ \E t \in Handlers : Read(t)
  \/ \E t \in Handlers : Send(t)
  \/ \E t \in Handlers : Rebind(t)

SpecThreads == InitThreads /\ [][NextThreads]_vars

(***************************************************************************)
(* deduplicate_course_keys on its own: every batch of DedupBatches.        *)
(***************************************************************************)

MaxBatchLen == 4
MaxOverflow == 2

DedupRecords ==
  {Course(num, suffix, "Intro", "open") :
     num \in {101, 102}, suffix \in {"", "A", "B"}}

RECURSIVE Batches(_, _)
Batches(records, n) ==
  IF n = 0 THEN {<<>>}
  ELSE LET shorter == Batches(records, n - 1)
       IN shorter \cup {Append(s, r) : s \in shorter, r \in records}

\* n records with one and the same key, around the length of the alphabet,
\* alone or followed by a record that already carries a letter.
LongBatches ==
  LET lens == (Len(ascii_uppercase) - 1)..(Len(ascii_uppercase) + MaxOverflow)
      same(n) == [i \in 1..n |-> Course(101, "", "Intro", "open")]
  IN {same(n) : n \in lens}
     \cup {Append(same(n), Course(101, "A", "Intro", "open")) : n \in lens}

DedupBatches == Batches(DedupRecords, MaxBatchLen) \cup LongBatches

InitDedup ==
  /\ StoreInit([debug |-> TRUE, use_cache |-> TRUE, use_snitch |-> FALSE])
  /\ \E courses \in DedupBatches :
        /\ batch = courses
        /\ dedup = None

Deduplicate ==
  /\ dedup = None
  /\ dedup' = Some(deduplicate_course_keys(batch))
  /\ last' = [op |-> "deduplicate_course_keys"]
  /\ UNCHANGED <<course_data, INITIAL_COURSE_DATA, aliased, config, clock,
                 last_dms_update, commits, committed, batch, threads>>

\* index_courses on the same batch: the deduplication followed by the
\* collision check of lines 84-89.
IndexCourses ==
  /\ dedup # None
  /\ last.op = "deduplicate_course_keys"
  /\ LET ix == index_courses(batch)
     IN last' = [op |-> "index_courses", raised |-> ix.raised,
                 courses |-> ix.courses]
  /\ UNCHANGED <<course_data, INITIAL_COURSE_DATA, aliased, config, clock,
                 last_dms_update, commits, committed, batch, dedup, threads>>

NextDedup == Deduplicate \/ IndexCourses

SpecDedup == InitDedup /\ [][NextDedup]_vars

(***************************************************************************)
(* Properties of deduplicate_course_keys (checked under SpecDedup).        *)
(***************************************************************************)

Suffix(course) == course.courseCodeSuffix

\* The position of course i inside its colliding group of `courses`.
RankInGroup(courses, i) ==
  Cardinality({h \in 1..i :
                 course_to_index_key(courses[h]) = course_to_index_key(courses[i])})

GroupSize(courses, i) ==
  Cardinality({h \in 1..Len(courses) :
                 course_to_index_key(courses[h]) = course_to_index_key(courses[i])})

\* C8: whenever deduplicate_course_keys returns without raising, the batch
\* has the same length as before and all identity keys are pairwise distinct.
C8_DedupReturnsUniqueKeys ==
  (dedup # None /\ ~Val(dedup).raised)
    => /\ Len(Val(dedup).courses) = Len(batch)
       /\ KeysUnique(Val(dedup).courses)

\* C9: for a batch without any suffix, the i-th member of every colliding
\* group gets the i-th uppercase letter, a record alone in its group is left
\* unchanged, and the resulting keys are unique.
C9_LettersInInputOrder ==
  (dedup # None /\ \A i \in 1..Len(batch) : Suffix(batch[i]) = "")
    => /\ ~Val(dedup).raised
       /\ \A i \in 1..Len(batch) :
            IF GroupSize(batch, i) > 1
            THEN /\ RankInGroup(batch, i) <= Len(ascii_uppercase)
                 /\ Suffix(Val(dedup).courses[i])
                      = ascii_uppercase[RankInGroup(batch, i)]
            ELSE Val(dedup).courses[i] = batch[i]
       /\ KeysUnique(Val(dedup).courses)

\* C10: for a batch with a colliding group whose members carry a suffix,
\* deduplicate_course_keys raises and every record keeps the suffix it had.
C10_FailureMutatesNothing ==
  (dedup # None
   /\ \E i \in 1..Len(batch) : GroupSize(batch, i) > 1 /\ Suffix(batch[i]) # "")
    => /\ Val(dedup).raised
       /\ \A i \in 1..Len(batch) :
            Suffix(Val(dedup).courses[i]) = Suffix(batch[i])

\* C11: for a batch with a colliding group of more members than there are
\* letters, deduplication followed by indexing fails; it never returns with
\* a member of that group left without a letter.
C11_AlphabetExhaustionFails ==
  (last.op = "index_courses"
   /\ \E i \in 1..Len(batch) : GroupSize(batch, i) > Len(ascii_uppercase))
    => last.raised

(***************************************************************************)
(* The store's history, read off the history variable `commits`.           *)
(***************************************************************************)

\* The update that commit number j (j > 1) appended to the history.
AppendedBy(j) ==
  <<commits[j][1], compute_update(commits[j - 1][2], commits[j][2])>>

\* Updates applied after `since`, and those of them still retained.
AppliedAfter(since) == {j \in 2..Len(commits) : commits[j][1] > since}

RetainedAfter(since) ==
  {i \in 1..Len(course_data.updates) : course_data.updates[i][1] > since}

AllRetained(since) ==
  Cardinality(RetainedAfter(since)) = Cardinality(AppliedAfter(since))

\* The index that was current at `since`: that of the last commit whose
\* timestamp is <= since (there is one when since >= the first timestamp).
KnownAt(since) == commits # <<>> /\ commits[1][1] <= since

IndexAt(since) ==
  LET j == CHOOSE j \in 1..Len(commits) :
             /\ commits[j][1] <= since
             /\ \A h \in (j + 1)..Len(commits) : commits[h][1] > since
  IN commits[j][2]

\* Values of `since` the production properties range over: the first
\* timestamps, the newest ones and every SinceStride-th in between, each with
\* the second before it.
SinceStride == 20

PropSinceProd ==
  {since \in -1..clock :
     /\ since % delay \in {0, delay - 1}
     /\ \/ since <= 2 * delay
        \/ since >= clock - 2 * delay - 1
        \/ (since + 1) \div delay % SinceStride = 0}

(***************************************************************************)
(* Properties of the store under the production model (SpecProd).          *)
(***************************************************************************)

\* C1: if an update applied after `since` is no longer retained, the
\* courses-since query answers incremental: false with the full current
\* snapshot, never incremental: true.
C1_TruncatedHistoryFallsBack ==
  \A since \in PropSinceProd :
     (commits # <<>> /\ ~AllRetained(since))
       => LET response == CoursesSinceResponse(since)
          IN /\ response.status = "OK"
             /\ response.incremental = FALSE
             /\ response.courses = Val(course_data.current)

\* C6: the history never holds more than MAX_UPDATES_SAVED entries; after N
\* commits it holds min(N - 1, MAX_UPDATES_SAVED) entries, which are the most
\* recently appended (timestamp, update) pairs, oldest first.
C6_BoundedHistory ==
  LET updates == course_data.updates
      N == Len(commits)
      n == Len(updates)
  IN /\ n <= MAX_UPDATES_SAVED
     /\ N = 0 => n = 0
     /\ N > 0 => n = Min(N - 1, MAX_UPDATES_SAVED)
     /\ \A i \in 1..n : updates[i] = AppendedBy(N - n + i)

\* More than MAX_UPDATES_SAVED updates were appended and the oldest dropped.
C6_Witness ==
  /\ Len(commits) > MAX_UPDATES_SAVED + 1
  /\ Len(course_data.updates) = MAX_UPDATES_SAVED
  /\ last.op = "run_fetch_task" /\ last.result

\* The retained updates newer than `since` in which `key` is added or removed.
PresenceChanges(since, key) ==
  {i \in RetainedAfter(since) :
     key \in course_data.updates[i][2].added
              \cup course_data.updates[i][2].removed}

\* Among the retained updates newer than `since`, one removes `key` and a
\* later one adds it again.
RemovedThenAdded(since, key) ==
  \E i, j \in RetainedAfter(since) :
     /\ i < j
     /\ key \in course_data.updates[i][2].removed
     /\ key \in course_data.updates[j][2].added

\* The first retained update newer than `since` that adds or removes `key`
\* removes it: the client that synchronised at `since` holds the key.
FirstChangeRemoves(since, key) ==
  LET changes == PresenceChanges(since, key)
      first == CHOOSE i \in changes : \A h \in changes : i <= h
  IN changes # {} /\ key \in course_data.updates[first][2].removed

FirstChangeAdds(since, key) ==
  LET changes == PresenceChanges(since, key)
      first == CHOOSE i \in changes : \A h \in changes : i <= h
  IN changes # {} /\ key \in course_data.updates[first][2].added

\* The keys of the current index; no key before the first commit.
CurrentKeys ==
  IF course_data.index = None THEN {} ELSE DOMAIN Val(course_data.index)

\* C7 as stated: a key removed by one retained update newer than `since` and
\* added again by a later one, and present now, is in `modified` with the
\* full tracked-attribute set; no key is in both `added` and `removed`.
C7_RoundTripIsModified ==
  \A since \in PropSinceProd :
     LET acc == DiffAcc(since)
     IN /\ ~acc.fault
        /\ acc.added \cap acc.removed = {}
        /\ \A key \in CurrentKeys :
             RemovedThenAdded(since, key)
               => /\ key \in DOMAIN acc.modified
                  /\ acc.modified[key] = Range(COURSE_ATTRS)

\* C7 as amended: the same for a key whose first presence change among the
\* retained updates newer than `since` is a removal; a key whose first change
\* is an addition and that is present now is in `added`.
C7_RoundTripOfHeldKeyIsModified ==
  \A since \in PropSinceProd :
     LET acc == DiffAcc(since)
     IN /\ ~acc.fault
        /\ acc.added \cap acc.removed = {}
        /\ \A key \in CurrentKeys :
             /\ FirstChangeRemoves(since, key)
                  => /\ key \in DOMAIN acc.modified
                     /\ acc.modified[key] = Range(COURSE_ATTRS)
             /\ FirstChangeAdds(since, key) => key \in acc.added

\* A client asked for the changes since a time at which it held a key that
\* was then removed and added again, and got the key as fully modified.
C7_Witness ==
  /\ last.op = "courses-since"
  /\ last.response.status = "OK"
  /\ last.response.incremental
  /\ \E key \in DOMAIN Val(course_data.index) :
        /\ FirstChangeRemoves(Val(last.since), key)
        /\ Val(course_data.index)[key] \in last.response.diff.modified

(***************************************************************************)
(* Properties of the store under the development model (Spec).             *)
(***************************************************************************)

\* C2 as stated: when every update applied after `since` is retained, the
\* accumulators of compute_diff(since) equal compute_update of the index
\* current at `since` and the current index.
C2_ReplayEqualsDirectDiff ==
  \A since \in SinceInputs :
     (KnownAt(since) /\ AllRetained(since))
       => LET acc == DiffAcc(since)
              direct == compute_update(IndexAt(since), Val(course_data.index))
          IN /\ ~acc.fault
             /\ acc.added = direct.added
             /\ acc.removed = direct.removed
             /\ acc.modified = direct.modified

\* C2 as amended: `added` and `removed` equal those of compute_update; the
\* keys of `modified` are keys of the current index and include every key
\* that compute_update reports, each with at least the attributes it reports.
C2_ReplayCoversDirectDiff ==
  \A since \in SinceInputs :
     (KnownAt(since) /\ AllRetained(since))
       => LET acc == DiffAcc(since)
              old == IndexAt(since)
              new == Val(course_data.index)
              direct == compute_update(old, new)
          IN /\ ~acc.fault
             /\ acc.added = direct.added
             /\ acc.removed = direct.removed
             /\ DOMAIN direct.modified \subseteq DOMAIN acc.modified
             /\ DOMAIN acc.modified \subseteq DOMAIN new
             /\ \A key \in DOMAIN direct.modified :
                  direct.modified[key] \subseteq acc.modified[key]

\* Two updates were replayed and the replay reports more than the direct diff.
C2_Witness ==
  \E since \in SinceInputs :
     /\ KnownAt(since) /\ AllRetained(since)
     /\ Cardinality(RetainedAfter(since)) >= 2
     /\ DiffAcc(since).modified
          # compute_update(IndexAt(since), Val(course_data.index)).modified
     /\ DiffAcc(since).added # {}

\* C12: in every initialized store state no two records of the current
\* snapshot share an identity key, and the index maps exactly the keys of the
\* snapshot's records, each to its record.
C12_IndexMatchesSnapshot ==
  course_data.index # None
    => LET current == Val(course_data.current)
           index == Val(course_data.index)
       IN /\ KeysUnique(current)
          /\ DOMAIN index = AllKeys(current)
          /\ Cardinality(DOMAIN index) = Len(current)
          /\ \A i \in 1..Len(current) :
               index[course_to_index_key(current[i])] = current[i]

\* A scraped batch with two records of one key was committed: the snapshot
\* holds them with the letters the deduplication gave them.
C12_Witness ==
  /\ last.op = "run_fetch_task" /\ last.result
  /\ course_data.index # None
  /\ Len(Val(course_data.current)) = 2
  /\ \E i \in 1..2 : Suffix(Val(course_data.current)[i]) = "B"

\* C13: in every initialized store state the courses-since query answers
\* incremental: true with the replayed diff exactly when
\* since >= initial_timestamp and incremental: false with the full snapshot
\* exactly when since < initial_timestamp; initial_timestamp is the timestamp
\* of the first committed refresh.
C13_IncrementalIffSinceKnown ==
  course_data.index # None
    => /\ commits # <<>>
       /\ course_data.initial_timestamp = Some(commits[1][1])
       /\ \A since \in SinceInputs :
            LET response == CoursesSinceResponse(since)
            IN /\ response.status = "OK"
               /\ response.incremental
                    = (since >= Val(course_data.initial_timestamp))
               /\ ~response.incremental
                    => response.courses = Val(course_data.current)

\* C15: every update that update_course_data appended is the reference diff
\* of the two indexes it was computed from: `added` the keys of new not in
\* old, `removed` the keys of old not in new, `modified` exactly the keys in
\* both whose records differ in a tracked attribute, each with exactly the
\* differing attributes; the three parts share no key, and the diff of an
\* index with itself is empty, that of the empty index with S adds all of S.
C15_UpdateIsReferenceDiff ==
  LET updates == course_data.updates
      N == Len(commits)
      n == Len(updates)
  IN /\ N > 0 => n = N - 1
     /\ \A i \in 1..n :
          LET old == commits[i][2]
              new == commits[i + 1][2]
              update == updates[i][2]
              differ(key) ==
                {attr \in Range(COURSE_ATTRS) : old[key][attr] # new[key][attr]}
          IN /\ update.added = {key \in DOMAIN new : key \notin DOMAIN old}
             /\ update.removed = {key \in DOMAIN old : key \notin DOMAIN new}
             /\ DOMAIN update.modified
                  = {key \in DOMAIN old \cap DOMAIN new : differ(key) # {}}
             /\ \A key \in DOMAIN update.modified :
                  update.modified[key] = differ(key)
             /\ (update.added \cup update.removed)
                  \cap DOMAIN update.modified = {}
             /\ old = new
                  => /\ update.added = {} /\ update.removed = {}
                     /\ update.modified = <<>>
             /\ old = <<>>
                  => /\ update.added = DOMAIN new /\ update.removed = {}
                     /\ update.modified = <<>>

\* The first commit was the empty catalog; the history holds the update that
\* added keys to it and a later one that removes a key and modifies another.
C15_Witness ==
  /\ Len(course_data.updates) = 2
  /\ Len(commits) = 3
  /\ course_data.updates[1][2].added # {}
  /\ commits[1][2] = <<>>
  /\ course_data.updates[2][2].removed # {}
  /\ course_data.updates[2][2].modified # <<>>

\* C16: for every since >= initial_timestamp the replay raises no consistency
\* fault: no assertion fails, every key left in `added` or `modified` is in
\* the current index, and the three accumulators are pairwise disjoint.
C16_ReplayIsConsistent ==
  \A since \in SinceInputs :
     (course_data.index # None /\ since >= Val(course_data.initial_timestamp))
       => LET acc == DiffAcc(since)
              modified == DOMAIN acc.modified
          IN /\ ~acc.fault
             /\ ~compute_diff(since).fault
             /\ acc.added \cup modified \subseteq DOMAIN Val(course_data.index)
             /\ acc.added \cap acc.removed = {}
             /\ acc.removed \cap modified = {}
             /\ acc.added \cap modified = {}

\* What a client that holds the catalog `held` (key -> record) has after
\* applying a diff response: each `added` record inserted under its key, each
\* `removed` key deleted, the listed attributes of each `modified` record
\* written over those of the record it holds under that key.
ClientApply(held, diff) ==
  LET added == [key \in {course_to_index_key(course) : course \in diff.added}
                  |-> CHOOSE course \in diff.added :
                         course_to_index_key(course) = key]
      removed == {course_to_index_key(course) : course \in diff.removed}
      inserted == added @@ held
      kept == [key \in DOMAIN inserted \ removed |-> inserted[key]]
      patch(key) == {course \in diff.modified : course_to_index_key(course) = key}
  IN [key \in DOMAIN kept |->
        IF patch(key) = {} THEN kept[key]
        ELSE LET course == CHOOSE course \in patch(key) : TRUE
             IN [attr \in DOMAIN kept[key] |->
                   IF attr \in DOMAIN course THEN course[attr]
                   ELSE kept[key][attr]]]

\* C20: for every committed snapshot with timestamp `since` whose following
\* updates are all retained, a client holding that snapshot that applies
\* compute_diff(since) holds the keys of the current index, and its records
\* agree with the current ones on every identity and tracked attribute.
C20_ClientConverges ==
  \A since \in SinceInputs :
     (/\ \E j \in 1..Len(commits) : commits[j][1] = since
      /\ KnownAt(since) /\ AllRetained(since))
       => LET diff == compute_diff(since)
              index == Val(course_data.index)
              held == ClientApply(IndexAt(since), diff)
          IN /\ ~diff.fault
             /\ \A course \in diff.modified :
                  course_to_index_key(course) \in
                    DOMAIN IndexAt(since)
                      \cup {course_to_index_key(c) : c \in diff.added}
             /\ DOMAIN held = DOMAIN index
             /\ \A key \in DOMAIN index :
                  \A attr \in Range(COURSE_INDEX_ATTRS) \cup Range(COURSE_ATTRS) :
                     held[key][attr] = index[key][attr]

\* A client synchronised two updates ago converges: both updates changed a
\* key it held, and the diff it applied lists the attributes of both.
C20_Witness ==
  \E since \in SinceInputs :
     /\ \E j \in 1..Len(commits) : commits[j][1] = since
     /\ KnownAt(since) /\ AllRetained(since)
     /\ Cardinality(RetainedAfter(since)) = 2
     /\ compute_diff(since).modified # {}
     /\ \A i \in RetainedAfter(since) :
          DOMAIN course_data.updates[i][2].modified # {}
     /\ ClientApply(IndexAt(since), compute_diff(since)) = Val(course_data.index)
     /\ IndexAt(since) # Val(course_data.index)

\* C14: after every attempt of the refresh driver, whatever its outcome, the
\* next attempt is scheduled and made `delay` seconds later: as long as the
\* clock has not reached the end of the modelled time, the attempt that
\* follows the one made at time c is eventually made.
C14_NextAttemptFollows ==
  \A c \in 0..MaxClock :
     (clock = c /\ c + delay <= MaxClock) ~> (clock = c + delay)

\* C3: once a refresh has been committed and no reset has followed, neither
\* the full-catalog query nor the courses-since query answers "unavailable".
C3_AvailableOnceCommitted ==
  committed
    => /\ AllCoursesResponse.status # "SERVICE_UNAVAILABLE"
       /\ \A since \in SinceInputs :
            CoursesSinceResponse(since).status # "SERVICE_UNAVAILABLE"

\* C4: right after a debug reset the store is uninitialized: current, index,
\* initial_timestamp and timestamp are null, the history is empty, and both
\* queries answer "unavailable".
C4_ResetUninitializes ==
  last.op = "reset"
    => /\ course_data.current = None
       /\ course_data.index = None
       /\ course_data.initial_timestamp = None
       /\ course_data.timestamp = None
       /\ course_data.updates = <<>>
       /\ AllCoursesResponse = Unavailable
       /\ \A since \in SinceInputs : CoursesSinceResponse(since) = Unavailable

\* C5: an attempt for which run_single_fetch_task returns False leaves every
\* field of the store as it was before the attempt.
C5_FailedRefreshLeavesStore ==
  [][(last'.op = "run_fetch_task" /\ ~last'.result)
       => course_data' = course_data]_vars

(***************************************************************************)
(* Properties of the threads (SpecThreads).                                *)
(***************************************************************************)

\* The steps that write bytes to the client or to the cache files.
IOSteps == {"send", "write_cache"}

\* The steps that read or write course_data.
AccessSteps == ReadSteps \cup WriteSteps \cup {"rebind", "write_cache"}

\* C17: no thread performs I/O (response bytes, cache file) while it holds
\* the store lock.
C17_NoIOUnderLock ==
  \A t \in Threads : pc[t] \in IOSteps => thread_lock # Some(t)

\* C18: every read and every write of the store by any thread happens while
\* that thread holds the store lock.
C18_AccessUnderLock ==
  \A t \in Threads : pc[t] \in AccessSteps => thread_lock = Some(t)

\* C19: what a query handler has read of course_data is, key by key, what
\* one and the same committed store held: the fields of a response never
\* come from two different commits or from a commit in progress.
C19_ResponsesAreUntorn ==
  \A t \in Handlers :
     \E cd \in stores :
        \A f \in DOMAIN loc[t].read : loc[t].read[f] = cd[f]

\* A handler is sending an incremental answer built from the first commit
\* while the driver is in the middle of the second.
C19_Witness ==
  \E t \in Handlers :
     /\ pc[t] = "send"
     /\ loc[t].request.kind = "courses-since"
     /\ DOMAIN loc[t].read
          = {"timestamp", "current", "initial_timestamp", "updates", "index",
             "malformed"}
     /\ loc[t].read["timestamp"] = Some(delay)
     /\ pc["driver"] = "index"
     /\ course_data.current # loc[t].read["current"]

====
